---- MODULE Spec2Model ----
(***************************************************************************)
(* A model of spark_sql_generator.py: SQLColumnGenerator.generate_sql and  *)
(* the ADD-path generator OrderPreservingGenerator.                        *)
(*                                                                         *)
(* A dotted path is a sequence of its segments ("a.element.b" is           *)
(* <<"a", "element", "b">>): no segment holds a dot, so the string tests   *)
(* of the code (startswith(parent + "."), split("."), ".element." in path) *)
(* are tests on segments.  A rendered definition is the tree the text      *)
(* spells: a name, a type constructor and the nested fields.  The comment  *)
(* clause and the AFTER/FIRST clause of an ADD column are left out: the    *)
(* comment formatter is an external collaborator and neither clause        *)
(* changes which fields are rendered, nor where.                           *)
(***************************************************************************)
EXTENDS Integers, Sequences, FiniteSets, TLC

(* ------------------------------------------------------------------ *)
(* Bounds of the input families.                                      *)
(* ------------------------------------------------------------------ *)
MaxLen == 3
MaxChain == 4
MaxGroups == 2

(* Markers for a key that a dict does not hold.                       *)
Absent == "<absent>"
NoPath == <<>>
ELEMENT == "element"
BIG == 999999

(* ------------------------------------------------------------------ *)
(* The state.  gen is the OrderPreservingGenerator object in use;      *)
(* input_data, gidx, sql_statements are SQLColumnGenerator's input and *)
(* the loop of its generate_sql (gidx the group the loop is at).       *)
(* status: "direct" (the caller drives gen itself), "running" (inside  *)
(* SQLColumnGenerator.generate_sql), "returned", "error" (it raised).  *)
(* calls counts the calls of generate_sql on the object, first_result  *)
(* keeps the outcome of the first call.                                *)
(* ------------------------------------------------------------------ *)
VARIABLES gen, input_data, gidx, sql_statements, status, calls, first_result

vars == <<gen, input_data, gidx, sql_statements, status, calls, first_result>>

sqlvars == <<input_data, gidx, sql_statements, status, calls, first_result>>

(* ------------------------------------------------------------------ *)
(* Sequences.                                                         *)
(* ------------------------------------------------------------------ *)
Range(s) == {s[i] : i \in 1..Len(s)}

InSeq(x, s) == \E i \in 1..Len(s) : s[i] = x

RECURSIVE Flatten(_)
Flatten(ss) == IF ss = <<>> THEN <<>> ELSE Head(ss) \o Flatten(Tail(ss))

(* list.append(x) guarded by "x not in list" *)
AppendNew(s, x) == IF InSeq(x, s) THEN s ELSE Append(s, x)

RECURSIVE Dedup(_)
Dedup(s) ==
    IF s = <<>> THEN <<>>
    ELSE LET r == Dedup(SubSeq(s, 1, Len(s) - 1))
         IN AppendNew(r, s[Len(s)])

(* list.sort(key=...): a stable sort of <<key, value>> pairs by the     *)
(* integer key; Values gives the values back in their order.           *)
RECURSIVE InsertPair(_, _)
InsertPair(s, x) ==
    IF s = <<>> THEN <<x>>
    ELSE IF s[Len(s)][1] <= x[1] THEN Append(s, x)
    ELSE Append(InsertPair(SubSeq(s, 1, Len(s) - 1), x), s[Len(s)])

RECURSIVE SortPairs(_)
SortPairs(s) ==
    IF s = <<>> THEN <<>>
    ELSE InsertPair(SortPairs(SubSeq(s, 1, Len(s) - 1)), s[Len(s)])

Values(pairs) == [i \in 1..Len(pairs) |-> pairs[i][2]]

(* ------------------------------------------------------------------ *)
(* Paths.                                                             *)
(* ------------------------------------------------------------------ *)
(* path.startswith(parent_path + ".") and path != parent_path *)
StartsWithDot(path, parent) ==
    /\ Len(path) > Len(parent)
    /\ SubSeq(path, 1, Len(parent)) = parent

(* ".".join(parts[:i]) *)
Prefix(path, i) == SubSeq(path, 1, i)

(* The segments that str.split(".element.") takes as separators: an    *)
(* "element" segment with a segment on both sides, scanning from the   *)
(* left without overlap (the dot after one separator cannot open the   *)
(* next one).                                                          *)
RECURSIVE MarkersFrom(_, _, _)
MarkersFrom(path, i, prevMarked) ==
    IF i >= Len(path) THEN {}
    ELSE IF path[i] = ELEMENT /\ i > 1 /\ ~prevMarked
         THEN {i} \cup MarkersFrom(path, i + 1, TRUE)
         ELSE MarkersFrom(path, i + 1, FALSE)

Markers(path) == MarkersFrom(path, 1, FALSE)

(* ".element." in path *)
HasElement(path) == \E i \in 2..(Len(path) - 1) : path[i] = ELEMENT

(* path.split(".element."): the pieces between the separators *)
RECURSIVE SplitAt(_, _, _)
SplitAt(path, from, ms) ==
    IF ms = {} THEN <<SubSeq(path, from, Len(path))>>
    ELSE LET m == CHOOSE x \in ms : \A y \in ms : x <= y
         IN <<SubSeq(path, from, m - 1)>> \o SplitAt(path, m + 1, ms \ {m})

SplitElement(path) == SplitAt(path, 1, Markers(path))

(* path.count(".element.") *)
CountElement(path) == Cardinality(Markers(path))

(* _split_element_path: path.split(".element.", 1) *)
SplitElementPath(path) ==
    LET m == CHOOSE x \in Markers(path) : \A y \in Markers(path) : x <= y
    IN <<SubSeq(path, 1, m - 1), SubSeq(path, m + 1, Len(path))>>

(* ------------------------------------------------------------------ *)
(* Descriptors and the collaborators.                                  *)
(*                                                                     *)
(* A descriptor is [path, value, arr_type, nestedFields]: path is      *)
(* NoPath and value, arr_type are Absent when the dict lacks the key;  *)
(* nestedFields is <<>> when it is missing or falsy and <<nf>> with    *)
(* nf = [name, type] otherwise.                                        *)
(* ------------------------------------------------------------------ *)
Desc(p, v, at, nf) == [path |-> p, value |-> v, arr_type |-> at, nestedFields |-> nf]

(* spark_ddl_types.get(name, default), of helper.py: the table of      *)
(* primitive type names.                                               *)
DdlTypeOr(name, default) ==
    CASE name = "string" -> "STRING"
      [] name = "int"    -> "INT"
      [] OTHER           -> default

(* spark_ddl_types.get(name, name): unknown names pass through *)
DdlType(name) == DdlTypeOr(name, name)

(* SQLFormatter.format_path: every segment between two backticks (a   *)
(* TLA+ string cannot hold the character, BQ stands for it)            *)
BQ == "BACKTICK"
FormatPath(path) == [i \in 1..Len(path) |-> <<BQ, path[i], BQ>>]

(* ------------------------------------------------------------------ *)
(* The index structures (_preprocess_input, _process_array_elements),  *)
(* built from the input list D.  A dict is a function on its keys; a   *)
(* dict whose order of insertion is read is a sequence of <<key, val>> *)
(* pairs.                                                              *)
(* ------------------------------------------------------------------ *)
(* path_data.keys(): a dict keeps the order of first insertion *)
PathKeys(D) == Dedup([i \in 1..Len(D) |-> D[i].path])

(* the index of the last item stored under p *)
LastIndex(D, p) ==
    CHOOSE i \in 1..Len(D) : D[i].path = p /\ \A j \in (i + 1)..Len(D) : D[j].path # p

(* _track_original_order / path_data[path] = item: the last item wins *)
BuildOriginalOrder(D) == [p \in Range(PathKeys(D)) |-> LastIndex(D, p)]

BuildPathData(D) == [p \in Range(PathKeys(D)) |-> D[LastIndex(D, p)]]

(* the items _process_path_items appends to top_level_items *)
RECURSIVE TopLevelFrom(_, _)
TopLevelFrom(D, i) ==
    IF i > Len(D) THEN <<>>
    ELSE (IF \A j \in 1..(i - 1) : D[j].path[1] # D[i].path[1] THEN <<D[i]>> ELSE <<>>)
         \o TopLevelFrom(D, i + 1)

(* the first items of the top-level names, last name first *)
TopLevelOf_reversed(D) ==
    [i \in 1..Len(TopLevelFrom(D, 1)) |->
        TopLevelFrom(D, 1)[Len(TopLevelFrom(D, 1)) + 1 - i]]

TopLevelOf(D) == TopLevelFrom(D, 1)

(* _build_field_order_hierarchy: under every prefix of a path, the     *)
(* next segments in first-seen order                                   *)
RECURSIVE FieldsUnder(_, _, _)
FieldsUnder(D, parent, i) ==
    IF i > Len(D) THEN <<>>
    ELSE (IF StartsWithDot(D[i].path, parent) THEN <<D[i].path[Len(parent) + 1]>> ELSE <<>>)
         \o FieldsUnder(D, parent, i + 1)

BuildFieldOrder(D) ==
    [parent \in UNION {{Prefix(D[i].path, n) : n \in 0..(Len(D[i].path) - 1)} :
                          i \in 1..Len(D)}
        |-> Dedup(FieldsUnder(D, parent, 1))]

(* _process_element_path_fields: under the part before the first       *)
(* ".element.", the remainders                                         *)
RECURSIVE RemaindersOf(_, _, _)
RemaindersOf(D, array_path, i) ==
    IF i > Len(D) THEN <<>>
    ELSE (IF HasElement(D[i].path) /\ SplitElementPath(D[i].path)[1] = array_path
          THEN <<SplitElementPath(D[i].path)[2]>> ELSE <<>>)
         \o RemaindersOf(D, array_path, i + 1)

BuildElementFields(D) ==
    [array_path \in {SplitElementPath(D[i].path)[1] :
                        i \in {j \in 1..Len(D) : HasElement(D[j].path)}}
        |-> Dedup(RemaindersOf(D, array_path, 1))]

(* _process_array_elements: the element paths, fewest ".element."      *)
(* first (a stable sort of the dict's keys)                            *)
RECURSIVE SelectElementPaths(_)
SelectElementPaths(keys) ==
    IF keys = <<>> THEN <<>>
    ELSE (IF HasElement(Head(keys)) THEN <<Head(keys)>> ELSE <<>>)
         \o SelectElementPaths(Tail(keys))

SortByCount(paths) ==
    Values(SortPairs([i \in 1..Len(paths) |-> <<CountElement(paths[i]), paths[i]>>]))

ElementPaths(D) == SortByCount(SelectElementPaths(PathKeys(D)))

(* _process_element_path with _process_multilevel_element_path and     *)
(* _process_simple_element_path: what one element path stores.  base   *)
(* is the array whose key is created, nested the nested array that is  *)
(* registered (NoPath: none) and arr, key the entry                    *)
(* array_element_fields[arr][key] = path that is written (arr =        *)
(* NoPath: none).  A key is the piece of the path taken as field name. *)
ElementEntry(base, nested, arr, key, path) ==
    [base |-> base, nested |-> nested, arr |-> arr, key |-> key, path |-> path]

ProcessSegments(path, segments, nested) ==
    IF Len(segments) > 2
    THEN IF Len(segments) = 3
         THEN ElementEntry(segments[1], nested, nested, segments[3], path)
         ELSE IF Len(segments[2]) > 1
              THEN ElementEntry(segments[1], nested, nested, <<segments[2][2]>>, path)
              ELSE ElementEntry(segments[1], nested, NoPath, <<>>, path)
    ELSE ElementEntry(segments[1], NoPath, segments[1], <<segments[2][1]>>, path)

NestedArrayPath(segments) == segments[1] \o <<ELEMENT, segments[2][1]>>

ProcessElementPath(path) ==
    ProcessSegments(path, SplitElement(path), NestedArrayPath(SplitElement(path)))

ElementEntries(D) == [i \in 1..Len(ElementPaths(D)) |-> ProcessElementPath(ElementPaths(D)[i])]

(* d[key] = val on a dict kept as a sequence of <<key, val>>: a new    *)
(* key goes last, a known key keeps its place                          *)
DictSet(d, key, val) ==
    IF \E i \in 1..Len(d) : d[i][1] = key
    THEN [i \in 1..Len(d) |-> IF d[i][1] = key THEN <<key, val>> ELSE d[i]]
    ELSE Append(d, <<key, val>>)

RECURSIVE EntriesOf(_, _, _)
EntriesOf(es, arr, n) ==
    IF n = 0 THEN <<>>
    ELSE IF es[n].arr = arr THEN DictSet(EntriesOf(es, arr, n - 1), es[n].key, es[n].path)
    ELSE EntriesOf(es, arr, n - 1)

(* array_element_fields: every base and nested array has a dict *)
ArrayElementFieldsOf(es) ==
    [arr \in {es[i].base : i \in 1..Len(es)} \cup ({es[i].nested : i \in 1..Len(es)} \ {NoPath})
        |-> EntriesOf(es, arr, Len(es))]

RECURSIVE NestedOf(_, _, _)
NestedOf(es, base, i) ==
    IF i > Len(es) THEN <<>>
    ELSE (IF es[i].base = base /\ es[i].nested # NoPath THEN <<es[i].nested>> ELSE <<>>)
         \o NestedOf(es, base, i + 1)

(* nested_arrays *)
NestedArraysOf(es) ==
    [base \in {es[i].base : i \in {j \in 1..Len(es) : es[j].nested # NoPath}}
        |-> Dedup(NestedOf(es, base, 1))]

(* dict.get(key, default) *)
Get(d, key, default) == IF key \in DOMAIN d THEN d[key] ELSE default

(* The lookups of a generator object G. *)
InPathData(G, p) == p \in DOMAIN G.path_data

OriginalOrder(G, p) == Get(G.original_order, p, BIG)

ArrayElementFields(G, arr) == Get(G.array_element_fields, arr, <<>>)

NestedArrays(G, base) == Get(G.nested_arrays, base, <<>>)

(* _has_children *)
HasChildren(G, parent_path) ==
    \E p \in DOMAIN G.path_data : StartsWithDot(p, parent_path)

(* nestedFields in item and item["nestedFields"] and ... != "None" *)
HasNestedFields(item) == item.nestedFields # <<>>

(* ------------------------------------------------------------------ *)
(* Rendering.  A rendered field is [name, k, t, fields]: name is the   *)
(* field name as written (the segments of a dotted name), k the type   *)
(* constructor ("prim", "struct", "array", "array_struct"), t the      *)
(* primitive or element type and fields the body.  k = "err" stands    *)
(* for the KeyError raised when the item rendered there has no         *)
(* "value": the exception leaves every caller, so a tree holding an    *)
(* err node is a generation that raised.  G is the generator object    *)
(* and P its processed_paths at the time of the call.                  *)
(* ------------------------------------------------------------------ *)
Node(name, k, t, fields) == [name |-> name, k |-> k, t |-> t, fields |-> fields]

ErrNode(name) == Node(name, "err", "", <<>>)

RECURSIVE HasErr(_)
HasErr(n) == n.k = "err" \/ \E i \in 1..Len(n.fields) : HasErr(n.fields[i])

(* item.get("arr_type", "string") *)
ArrTypeOr(item) == IF item.arr_type # Absent THEN item.arr_type ELSE "string"

(* _add_direct_child_if_matched: direct_children after looking at path *)
AddDirectChildIfMatched(G, path, remaining, direct_children, parent_path) ==
    IF Len(remaining) = 1 THEN Append(direct_children, path)
    ELSE IF Len(remaining) - 1 >= 2 /\ HasElement(remaining)
         THEN IF ~InSeq(parent_path \o <<remaining[1]>>, direct_children)
                 /\ InPathData(G, parent_path \o <<remaining[1]>>)
              THEN Append(direct_children, parent_path \o <<remaining[1]>>)
              ELSE direct_children
    ELSE IF Len(remaining) = 2
         THEN IF InPathData(G, parent_path \o <<remaining[1]>>)
                 /\ ~InSeq(parent_path \o <<remaining[1]>>, direct_children)
              THEN Append(direct_children, parent_path \o <<remaining[1]>>)
              ELSE direct_children
    ELSE direct_children

(* the loop of _get_direct_children over the first n keys *)
RECURSIVE ScanChildren(_, _, _, _)
ScanChildren(G, P, parent_path, n) ==
    IF n = 0 THEN <<>>
    ELSE IF G.path_keys[n] = parent_path \/ G.path_keys[n] \in P
            \/ ~StartsWithDot(G.path_keys[n], parent_path)
         THEN ScanChildren(G, P, parent_path, n - 1)
    ELSE AddDirectChildIfMatched(G, G.path_keys[n],
            SubSeq(G.path_keys[n], Len(parent_path) + 1, Len(G.path_keys[n])),
            ScanChildren(G, P, parent_path, n - 1), parent_path)

(* _get_direct_children *)
GetDirectChildren(G, P, parent_path) == ScanChildren(G, P, parent_path, Len(G.path_keys))

(* _get_ordered_children, from the direct children: those named by    *)
(* field_order first, then the missing ones, then the sort             *)
RECURSIVE ByFieldOrder(_, _, _, _)
ByFieldOrder(fo, struct_path, direct_children, i) ==
    IF i > Len(fo) THEN <<>>
    ELSE (IF InSeq(struct_path \o <<fo[i]>>, direct_children)
          THEN <<struct_path \o <<fo[i]>>>> ELSE <<>>)
         \o ByFieldOrder(fo, struct_path, direct_children, i + 1)

RECURSIVE AddMissing(_, _, _)
AddMissing(ordered_children, direct_children, i) ==
    IF i > Len(direct_children) THEN ordered_children
    ELSE AddMissing(AppendNew(ordered_children, direct_children[i]), direct_children, i + 1)

(* the children as collected, left unsorted *)
SortByOrder_unsorted(G, children) ==
    [i \in 1..Len(children) |-> <<OriginalOrder(G, children[i]), children[i]>>]

SortByOrder(G, children) ==
    SortPairs([i \in 1..Len(children) |-> <<OriginalOrder(G, children[i]), children[i]>>])

OrderChildren(G, struct_path, direct_children) ==
    SortByOrder(G, AddMissing(ByFieldOrder(Get(G.field_order, struct_path, <<>>),
                                           struct_path, direct_children, 1),
                              direct_children, 1))

(* _get_ordered_children: <<order, child path>> pairs, sorted *)
GetOrderedChildren(G, P, struct_path) ==
    OrderChildren(G, struct_path, GetDirectChildren(G, P, struct_path))

(* _collect_array_fields: all_fields as <<name, info>> pairs *)
NoNf == [name |-> Absent, type |-> Absent]

FieldInfo(type, order, path, data) == [type |-> type, order |-> order, path |-> path, data |-> data]

NestedFieldsEntry(G, array_path) ==
    IF InPathData(G, array_path) /\ HasNestedFields(G.path_data[array_path])
    THEN << << <<IF G.path_data[array_path].nestedFields[1].name = Absent THEN "id"
                 ELSE G.path_data[array_path].nestedFields[1].name>>,
               FieldInfo("nestedField", -1, NoPath, G.path_data[array_path].nestedFields[1]) >> >>
    ELSE <<>>

RECURSIVE RegularEntries(_, _, _, _)
RegularEntries(G, aef, all_fields, i) ==
    IF i > Len(aef) THEN all_fields
    ELSE RegularEntries(G, aef,
            IF InPathData(G, aef[i][2])
            THEN DictSet(all_fields, aef[i][1],
                         FieldInfo("regular", OriginalOrder(G, aef[i][2]), aef[i][2], NoNf))
            ELSE all_fields, i + 1)

RECURSIVE NestedEntries(_, _, _, _)
NestedEntries(G, nas, all_fields, i) ==
    IF i > Len(nas) THEN all_fields
    ELSE NestedEntries(G, nas,
            DictSet(all_fields, <<nas[i][Len(nas[i])]>>,
                    FieldInfo("nested_array", OriginalOrder(G, nas[i]), nas[i], NoNf)), i + 1)

CollectArrayFields(G, array_path) ==
    NestedEntries(G, NestedArrays(G, array_path),
        RegularEntries(G, ArrayElementFields(G, array_path),
                       NestedFieldsEntry(G, array_path), 1), 1)

(* _format_nestedfield *)
FormatNestedfield(field_name, field_info) ==
    Node(field_name, "prim",
         DdlTypeOr(IF field_info.data.type = Absent THEN "string" ELSE field_info.data.type,
                   "string"), <<>>)

(* the simple-field line of _add_element_fields_from_path_scan and     *)
(* _add_element_fields_from_mapping                                    *)
ElementFieldLine(G, field_name, path) ==
    IF G.path_data[path].value = Absent THEN ErrNode(field_name)
    ELSE Node(field_name, "prim", DdlType(G.path_data[path].value), <<>>)

(* the first item of input_data with this path, <<>> when none *)
ArrayDef(G, path) ==
    IF \E i \in 1..Len(G.input_data) : G.input_data[i].path = path
    THEN <<G.input_data[CHOOSE i \in 1..Len(G.input_data) :
              G.input_data[i].path = path
              /\ \A j \in 1..(i - 1) : G.input_data[j].path # path]>>
    ELSE <<>>

(* _add_nested_array_fields *)
NestedFieldLine(nf) ==
    IF nf.name = Absent THEN ErrNode(<<>>)
    ELSE Node(<<nf.name>>, "prim", IF nf.type = Absent THEN "string" ELSE DdlType(nf.type), <<>>)

AddNestedArrayFields(array_def) ==
    IF array_def # <<>> /\ HasNestedFields(array_def[1])
    THEN <<NestedFieldLine(array_def[1].nestedFields[1])>>
    ELSE <<>>

(* the element_fields dict of _add_element_fields_from_path_scan *)
RECURSIVE ScanPattern(_, _, _)
ScanPattern(keys, pattern, n) ==
    IF n = 0 THEN <<>>
    ELSE IF StartsWithDot(keys[n], pattern)
         THEN DictSet(ScanPattern(keys, pattern, n - 1), <<keys[n][Len(pattern) + 1]>>, keys[n])
    ELSE ScanPattern(keys, pattern, n - 1)

PathScanOf(G, parts) ==
    IF Len(parts) >= 2
    THEN ScanPattern(G.path_keys, parts[1] \o <<ELEMENT>> \o parts[2] \o <<ELEMENT>>,
                     Len(G.path_keys))
    ELSE <<>>

PathScan(G, nested_array_path) == PathScanOf(G, SplitElement(nested_array_path))

(* the lines one of the two loops adds: the entries of d whose name is *)
(* not yet among the names of struct_fields                            *)
AppendElementField(G, struct_fields, entry) ==
    IF \E i \in 1..Len(struct_fields) : struct_fields[i].name = entry[1] THEN struct_fields
    ELSE Append(struct_fields, ElementFieldLine(G, entry[1], entry[2]))

RECURSIVE AddElementFields(_, _, _, _)
AddElementFields(G, struct_fields, d, n) ==
    IF n = 0 THEN struct_fields
    ELSE AppendElementField(G, AddElementFields(G, struct_fields, d, n - 1), d[n])

AddAll(G, struct_fields, d) == AddElementFields(G, struct_fields, d, Len(d))

(* _format_nested_array_content *)
FormatNestedArrayContent(G, nested_array_path) ==
    AddAll(G,
        AddAll(G, AddNestedArrayFields(ArrayDef(G, nested_array_path)),
               PathScan(G, nested_array_path)),
        ArrayElementFields(G, nested_array_path))

(* _format_nested_array_field *)
NestedArrayNode(field_name, nested_content, array_def) ==
    IF nested_content # <<>>
    THEN Node(field_name, "array_struct", "", nested_content)
    ELSE Node(field_name, "array",
              IF array_def # <<>> THEN ArrTypeOr(array_def[1]) ELSE "string", <<>>)

FormatNestedArrayField(G, field_name, field_info) ==
    NestedArrayNode(field_name, FormatNestedArrayContent(G, field_info.path),
                    ArrayDef(G, field_info.path))

RECURSIVE FormatStructContent(_, _, _)
RECURSIVE FormatArrayStructContent(_, _, _)

(* _format_regular_field *)
FormatRegularField(G, P, field_name, field_info) ==
    IF G.path_data[field_info.path].value = Absent THEN ErrNode(field_name)
    ELSE IF G.path_data[field_info.path].value = "array"
         THEN Node(field_name, "array", ArrTypeOr(G.path_data[field_info.path]), <<>>)
    ELSE IF G.path_data[field_info.path].value = "object" /\ HasChildren(G, field_info.path)
         THEN Node(field_name, "struct", "", FormatStructContent(G, P, field_info.path))
    ELSE Node(field_name, "prim", DdlType(G.path_data[field_info.path].value), <<>>)

(* _format_object_field *)
FormatObjectField(G, P, child_path, field) ==
    Node(<<field>>, "struct", "",
         IF HasChildren(G, child_path) THEN FormatStructContent(G, P, child_path) ELSE <<>>)

(* the two array forms: array<struct<...>> around a body that is not   *)
(* empty, array<arr_type or string> otherwise                          *)
ArrayNode(name, array_struct_content, item) ==
    IF array_struct_content # <<>>
    THEN Node(name, "array_struct", "", array_struct_content)
    ELSE Node(name, "array", ArrTypeOr(item), <<>>)

(* _format_array_field *)
FormatArrayField(G, P, child_path, field, child_item) ==
    IF child_item.arr_type # Absent /\ ArrayElementFields(G, child_path) = <<>>
    THEN Node(<<field>>, "array", child_item.arr_type, <<>>)
    ELSE ArrayNode(<<field>>, FormatArrayStructContent(G, P, child_path), child_item)

(* _format_struct_child *)
FormatChildItem(G, P, child_path, field, child_item) ==
    IF child_item.value = Absent THEN ErrNode(<<field>>)
    ELSE IF child_item.value = "object" THEN FormatObjectField(G, P, child_path, field)
    ELSE IF child_item.value = "array"
         THEN FormatArrayField(G, P, child_path, field, child_item)
    ELSE Node(<<field>>, "prim", DdlType(child_item.value), <<>>)

FormatStructChild(G, P, child_path) ==
    FormatChildItem(G, P, child_path, child_path[Len(child_path)], G.path_data[child_path])

(* _format_struct_content *)
StructLines(G, P, ordered_children) ==
    [i \in 1..Len(ordered_children) |-> FormatStructChild(G, P, ordered_children[i][2])]

FormatStructContent(G, P, struct_path) ==
    StructLines(G, P, GetOrderedChildren(G, P, struct_path))

(* _format_array_struct_content: all_fields sorted by order, one line  *)
(* for each                                                            *)
ArrayStructLine(G, P, f) ==
    CASE f[2].type = "nestedField"  -> FormatNestedfield(f[1], f[2])
      [] f[2].type = "regular"      -> FormatRegularField(G, P, f[1], f[2])
      [] f[2].type = "nested_array" -> FormatNestedArrayField(G, f[1], f[2])

ArrayStructLines(G, P, ordered) ==
    [i \in 1..Len(ordered) |-> ArrayStructLine(G, P, ordered[i][2])]

SortFields(all_fields) ==
    SortPairs([i \in 1..Len(all_fields) |-> <<all_fields[i][2].order, all_fields[i]>>])

FormatArrayStructContent(G, P, array_path) ==
    ArrayStructLines(G, P, SortFields(CollectArrayFields(G, array_path)))

(* ------------------------------------------------------------------ *)
(* Column definitions.  A formatter gives [tag, node, marks]: tag is   *)
(* "none" (the code returns None), "def" (a definition, node) or "err" *)
(* (it raised); marks are the paths it added to processed_paths.       *)
(* ------------------------------------------------------------------ *)
NoNode == Node(<<>>, "none", "", <<>>)
RNone == [tag |-> "none", node |-> NoNode, marks |-> {}]
RErr == [tag |-> "err", node |-> NoNode, marks |-> {}]
RDef(node, marks) == [tag |-> IF HasErr(node) THEN "err" ELSE "def", node |-> node, marks |-> marks]

(* _mark_processed: the path and every path of path_data below it *)
MarkProcessed(G, parent_path) ==
    {parent_path} \cup {p \in DOMAIN G.path_data : StartsWithDot(p, parent_path)}

(* _mark_processed_tree *)
MarkProcessedTree(G, path, children) ==
    {path} \cup Range(children)
    \cup UNION {{child \o <<ELEMENT>> \o ef : ef \in Range(Get(G.element_fields, child, <<>>))} :
                  child \in Range(children)}

(* the values of array_element_fields[arr] that are keys of path_data *)
ElementPathsOf(G, arr) ==
    {e[2] : e \in {x \in Range(ArrayElementFields(G, arr)) : InPathData(G, x[2])}}

(* _mark_array_elements_processed *)
MarkArrayElementsProcessed(G, path) ==
    IF path \in DOMAIN G.array_element_fields
    THEN ElementPathsOf(G, path)
         \cup UNION {ElementPathsOf(G, na) : na \in Range(NestedArrays(G, path))}
    ELSE {}

(* _format_struct, called for an unprocessed path *)
StructOf(G, P, path, children) ==
    IF children = <<>>
    THEN RDef(Node(FormatPath(path), "struct", "", <<>>), {path})
    ELSE RDef(Node(FormatPath(path), "struct", "", FormatStructContent(G, P, path)),
              MarkProcessedTree(G, path, children))

FormatStruct(G, P, path) == StructOf(G, P, path, GetDirectChildren(G, P, path))

(* _format_dotted_object *)
FormatDottedObject(G, P, path) ==
    RDef(Node(FormatPath(path), "struct", "",
              IF HasChildren(G, path) THEN FormatStructContent(G, P, path) ELSE <<>>), {})

(* _format_dotted_array *)
DottedArrayOf(G, path, item, array_struct_content) ==
    RDef(ArrayNode(FormatPath(path), array_struct_content, item),
         IF array_struct_content # <<>> THEN MarkArrayElementsProcessed(G, path) ELSE {})

FormatDottedArray(G, P, path, item) ==
    DottedArrayOf(G, path, item,
        IF HasNestedFields(item) \/ ArrayElementFields(G, path) # <<>>
        THEN FormatArrayStructContent(G, P, path) ELSE <<>>)

(* The second loop of _format_dotted_path, from prefix i on: "none"    *)
(* at the first prefix whose item is an object with children, "err"    *)
(* at one whose item has no value, "go" when the loop ends.            *)
RECURSIVE WillBeProcessed(_, _, _)
WillBeProcessed(G, path, i) ==
    IF i >= Len(path) THEN "go"
    ELSE IF ~InPathData(G, Prefix(path, i)) THEN WillBeProcessed(G, path, i + 1)
    ELSE IF G.path_data[Prefix(path, i)].value = Absent THEN "err"
    ELSE IF G.path_data[Prefix(path, i)].value = "object" /\ HasChildren(G, Prefix(path, i))
         THEN "none"
    ELSE WillBeProcessed(G, path, i + 1)

(* the tail of _format_dotted_path, by the value kind *)
FormatByValue(G, P, path, item) ==
    IF item.value = Absent THEN RErr
    ELSE IF item.value = "object" THEN FormatDottedObject(G, P, path)
    ELSE IF item.value = "array" THEN FormatDottedArray(G, P, path, item)
    ELSE RDef(Node(FormatPath(path), "prim", DdlType(item.value), <<>>), {})

DottedPathOf(G, P, path, item, will) ==
    IF HasElement(path) /\ (path \in P \/ SplitElementPath(path)[1] \in P) THEN RNone
    ELSE IF \E i \in 1..(Len(path) - 1) : Prefix(path, i) \in P THEN RNone
    ELSE IF will = "none" THEN RNone
    ELSE IF will = "err" THEN RErr
    ELSE FormatByValue(G, P, path, item)

(* _format_dotted_path *)
FormatDottedPath(G, P, item) ==
    DottedPathOf(G, P, item.path, item, WillBeProcessed(G, item.path, 1))

(* _is_child_of_processed_path *)
IsChildOfProcessedPath(P, path) == \E i \in 1..(Len(path) - 1) : Prefix(path, i) \in P

(* _get_remaining_items *)
RECURSIVE RemainingFrom(_, _, _)
RemainingFrom(D, P, i) ==
    IF i > Len(D) THEN <<>>
    ELSE (IF D[i].path \notin P /\ ~IsChildOfProcessedPath(P, D[i].path)
          THEN <<D[i]>> ELSE <<>>) \o RemainingFrom(D, P, i + 1)

(* the sweep over the first-seen items alone instead of the whole input *)
GetRemainingItems_firstSeen(G) == RemainingFrom(G.top_level_items, G.processed_paths, 1)

GetRemainingItems(G) == RemainingFrom(G.input_data, G.processed_paths, 1)

(* remaining_items.sort(key=original_order) *)
SortItems(G, items) ==
    SortPairs([i \in 1..Len(items) |-> <<OriginalOrder(G, items[i].path), items[i]>>])

(* ------------------------------------------------------------------ *)
(* The OrderPreservingGenerator object and the steps of its            *)
(* generate_sql.  pc: "new" (constructed: ready for a call), "top"     *)
(* (in the loop of _process_top_level_items, at item i), "rest" (in    *)
(* the loop of _process_remaining_items, at item i), "done" (the call  *)
(* returned result), "error" (it raised).                              *)
(* ------------------------------------------------------------------ *)
NoResult == [k |-> "NONE", form |-> "", columns |-> <<>>, path |-> <<>>, arg |-> <<>>]

EmptyDict == [x \in {} |-> <<>>]

(* the generator object of the group before, taken again for these    *)
(* columns instead of a new one                                        *)
OrderPreservingGenerator_reused(columns) ==
    [gen EXCEPT !.input_data = columns, !.column_definitions = <<>>,
                !.remaining_items = <<>>, !.pc = "new", !.i = 1, !.result = NoResult]

(* __init__ *)
OrderPreservingGenerator(columns) ==
    [input_data |-> columns, processed_paths |-> {}, top_level_items |-> <<>>,
     path_keys |-> <<>>, path_data |-> EmptyDict, original_order |-> EmptyDict,
     field_order |-> EmptyDict, element_fields |-> EmptyDict,
     array_element_fields |-> EmptyDict, nested_arrays |-> EmptyDict,
     column_definitions |-> <<>>, remaining_items |-> <<>>,
     pc |-> "new", i |-> 1, result |-> NoResult]

Raise(g) == [g EXCEPT !.pc = "error"]

(* _preprocess_input and _process_array_elements.  item["path"] of     *)
(* _track_original_order raises on an item without a path.  The dicts  *)
(* are filled from input_data alone, so filling the dicts of an        *)
(* earlier call again leaves them as the first call built them;        *)
(* top_level_items is appended to.                                     *)
PreprocessInput(g) ==
    IF \E k \in 1..Len(g.input_data) : g.input_data[k].path = NoPath THEN Raise(g)
    ELSE [g EXCEPT !.top_level_items = g.top_level_items \o TopLevelOf(g.input_data),
                   !.path_keys = PathKeys(g.input_data),
                   !.path_data = BuildPathData(g.input_data),
                   !.original_order = BuildOriginalOrder(g.input_data),
                   !.field_order = BuildFieldOrder(g.input_data),
                   !.element_fields = BuildElementFields(g.input_data),
                   !.array_element_fields = ArrayElementFieldsOf(ElementEntries(g.input_data)),
                   !.nested_arrays = NestedArraysOf(ElementEntries(g.input_data)),
                   !.pc = "top", !.i = 1]

(* column_definitions.append(definition) and the marking that follows; *)
(* nothing is appended for None, and an exception ends the call        *)
TakeDefinition(g, r, marked) ==
    IF r.tag = "err" THEN Raise(g)
    ELSE IF r.tag = "none" THEN [g EXCEPT !.i = g.i + 1]
    ELSE [g EXCEPT !.i = g.i + 1,
                   !.column_definitions = Append(g.column_definitions, r.node),
                   !.processed_paths = g.processed_paths \cup r.marks \cup marked]

(* one turn of the loop of _process_top_level_items *)
ProcessTopLevel(g, item) ==
    IF item.path \in g.processed_paths THEN [g EXCEPT !.i = g.i + 1]
    ELSE IF item.value = Absent THEN Raise(g)
    ELSE IF item.value = "object" /\ HasChildren(g, item.path)
         THEN TakeDefinition(g, FormatStruct(g, g.processed_paths, item.path),
                             MarkProcessed(g, item.path))
    ELSE TakeDefinition(g, FormatDottedPath(g, g.processed_paths, item), {item.path})

ProcessTopLevelItem(g) == ProcessTopLevel(g, g.top_level_items[g.i])

(* the end of _process_top_level_items and the head of                 *)
(* _process_remaining_items: the remaining items, sorted               *)
StartRemainingItems(g) ==
    [g EXCEPT !.remaining_items = SortItems(g, GetRemainingItems(g)),
              !.pc = "rest", !.i = 1]

(* one turn of the loop of _process_remaining_items *)
ProcessRemaining(g, item) ==
    TakeDefinition(g, FormatDottedPath(g, g.processed_paths, item), {item.path})

ProcessRemainingItem(g) == ProcessRemaining(g, g.remaining_items[g.i][2])

(* the wrapper with a body whatever the definitions are *)
AddStatement_body(column_definitions) ==
    [k |-> "ADD_COLUMNS", form |-> "body", columns |-> column_definitions,
     path |-> <<>>, arg |-> <<>>]

(* the tail of generate_sql: the statement *)
AddStatement(column_definitions) ==
    [k |-> "ADD_COLUMNS", form |-> IF column_definitions = <<>> THEN "empty" ELSE "body",
     columns |-> column_definitions, path |-> <<>>, arg |-> <<>>]

JoinColumns(g) == [g EXCEPT !.pc = "done", !.result = AddStatement(g.column_definitions)]

(* generate_sql from any point to its end *)
RECURSIVE RunGenerator(_)
RunGenerator(g) ==
    CASE g.pc = "new" -> RunGenerator(PreprocessInput(g))
      [] g.pc = "top" -> IF g.i <= Len(g.top_level_items)
                         THEN RunGenerator(ProcessTopLevelItem(g))
                         ELSE RunGenerator(StartRemainingItems(g))
      [] g.pc = "rest" -> IF g.i <= Len(g.remaining_items)
                          THEN RunGenerator(ProcessRemainingItem(g))
                          ELSE JoinColumns(g)
      [] OTHER -> g

(* ------------------------------------------------------------------ *)
(* SQLColumnGenerator.generate_sql: the statements of one group that   *)
(* is not an ADD group.  A dotted string is the sequence of its        *)
(* segments, <<>> when the key is missing.  An entry of MOVE, REORDER  *)
(* and REPLACE is [path, value, moveafter, target_field].  A statement *)
(* is [k, form, columns, path, arg]: k the clause, path the formatted  *)
(* column path and arg the words after it.  A branch gives            *)
(* [ok, stmts]; ok is FALSE when a column[...] lookup raises.          *)
(* ------------------------------------------------------------------ *)
NoValue == <<>>
Entry(p, v, ma, tf) == [path |-> p, value |-> v, moveafter |-> ma, target_field |-> tf]
Stmt(k, path, arg) == [k |-> k, form |-> "", columns |-> <<>>, path |-> path, arg |-> arg]
Operations == {"ADD", "REMOVE", "MOVE", "REORDER", "REPLACE"}

(* the text "`" + s + "`" of a raw string s *)
Backticked(s) == <<BQ>> \o s \o <<BQ>>

(* the REMOVE branch *)
RemoveStatements(columns) ==
    [ok |-> TRUE,
     stmts |-> [i \in 1..Len(columns) |-> Stmt("DROP_COLUMN", FormatPath(columns[i]), <<>>)]]

(* the MOVE branch: column["path"], column["value"] *)
MoveStatements(columns) ==
    IF \E i \in 1..Len(columns) : columns[i].path = NoPath \/ columns[i].value = NoValue
    THEN [ok |-> FALSE, stmts |-> <<>>]
    ELSE [ok |-> TRUE,
          stmts |-> [i \in 1..Len(columns) |->
                        Stmt("RENAME_COLUMN", FormatPath(columns[i].path),
                             Backticked(columns[i].value))]]

(* the REORDER branch: FIRST when moveafter is "first", else AFTER     *)
(* the formatted column["value"]                                       *)
ReorderStatements(columns) ==
    IF \E i \in 1..Len(columns) :
          \/ columns[i].path = NoPath
          \/ columns[i].moveafter # <<"first">> /\ columns[i].value = NoValue
    THEN [ok |-> FALSE, stmts |-> <<>>]
    ELSE [ok |-> TRUE,
          stmts |-> [i \in 1..Len(columns) |->
                        IF columns[i].moveafter = <<"first">>
                        THEN Stmt("ALTER_COLUMN_FIRST", FormatPath(columns[i].path), <<>>)
                        ELSE Stmt("ALTER_COLUMN_AFTER", FormatPath(columns[i].path),
                                  Flatten(FormatPath(columns[i].value)))]]

(* the statements of one REPLACE entry: column.get("target_field",     *)
(* "value") picks the clause, no clause for any other target           *)
ReplaceEntry(column) ==
    LET target_field == IF column.target_field = Absent THEN "value" ELSE column.target_field
    IN IF target_field = "description" \/ target_field = "comment"
       THEN <<Stmt("ALTER_COLUMN_COMMENT", FormatPath(column.path), column.value)>>
       ELSE IF target_field = "type"
            THEN <<Stmt("ALTER_COLUMN_TYPE", FormatPath(column.path),
                        IF Len(column.value) = 1 THEN <<DdlType(column.value[1])>>
                        ELSE column.value)>>
       ELSE IF target_field = "name"
            THEN <<Stmt("RENAME_COLUMN", FormatPath(column.path), Backticked(column.value))>>
       ELSE <<>>

(* column["value"] is read only in the three recognized clauses *)
ReplaceRaises(column) ==
    \/ column.path = NoPath
    \/ /\ column.target_field \in {"description", "comment", "type", "name"}
       /\ column.value = NoValue

(* the REPLACE branch *)
ReplaceStatements(columns) ==
    IF \E i \in 1..Len(columns) : ReplaceRaises(columns[i])
    THEN [ok |-> FALSE, stmts |-> <<>>]
    ELSE [ok |-> TRUE,
          stmts |-> Flatten([i \in 1..Len(columns) |-> ReplaceEntry(columns[i])])]

(* An operation group is [operation, columns, paths, entries]: the     *)
(* list under its "columns" key is kept in the field of its kind, the  *)
(* descriptors of an ADD group in columns, the dotted strings of a     *)
(* REMOVE group in paths and the entries of the other groups in        *)
(* entries.                                                            *)
Group(operation, columns, paths, entries) ==
    [operation |-> operation, columns |-> columns, paths |-> paths, entries |-> entries]

(* what the if/elif chain of generate_sql does with a group that is    *)
(* not an ADD group: a tag no branch matches adds nothing              *)
GroupStatements(group) ==
    CASE group.operation = "REMOVE"  -> RemoveStatements(group.paths)
      [] group.operation = "MOVE"    -> MoveStatements(group.entries)
      [] group.operation = "REORDER" -> ReorderStatements(group.entries)
      [] group.operation = "REPLACE" -> ReplaceStatements(group.entries)
      [] OTHER                       -> [ok |-> TRUE, stmts |-> <<>>]

(* ------------------------------------------------------------------ *)
(* The ADD lists taken as input: up to MaxLen descriptors with        *)
(* pairwise distinct paths, in every order, and the lists of up to     *)
(* MaxChain descriptors of an array nested three levels deep and of    *)
(* an array with element fields.                                       *)
(* ------------------------------------------------------------------ *)
Nf == [name |-> "b", type |-> "int"]

A == <<"a">>
AB == <<"a", "b">>
AEB == <<"a", ELEMENT, "b">>
AEBEC == <<"a", ELEMENT, "b", ELEMENT, "c">>
AEBECED == <<"a", ELEMENT, "b", ELEMENT, "c", ELEMENT, "d">>

Descriptors ==
    { Desc(A, "string", Absent, <<>>), Desc(A, "object", Absent, <<>>),
      Desc(A, "array", Absent, <<>>), Desc(A, "array", "int", <<>>),
      Desc(A, "array", Absent, <<Nf>>), Desc(A, "array", "int", <<Nf>>),
      Desc(A, Absent, Absent, <<>>),
      Desc(<<"b">>, "string", Absent, <<>>), Desc(<<"b">>, "object", Absent, <<>>),
      Desc(<<"b">>, "array", Absent, <<>>),
      Desc(<<"c">>, "string", Absent, <<>>),
      Desc(AB, "string", Absent, <<>>), Desc(AB, "object", Absent, <<>>),
      Desc(AB, "array", Absent, <<>>), Desc(AB, "array", Absent, <<Nf>>),
      Desc(AB, Absent, Absent, <<>>),
      Desc(<<"a", "c">>, "string", Absent, <<>>),
      Desc(<<"a", "b", "c">>, "string", Absent, <<>>),
      Desc(AEB, "string", Absent, <<>>), Desc(AEB, "object", Absent, <<>>),
      Desc(AEB, "array", Absent, <<>>), Desc(AEB, "array", Absent, <<Nf>>),
      Desc(<<"a", ELEMENT, "c">>, "string", Absent, <<>>),
      Desc(<<"a", ELEMENT, "b", "c">>, "int", Absent, <<>>),
      Desc(AEBEC, "string", Absent, <<>>),
      Desc(<<"a", "b", ELEMENT, "c">>, "string", Absent, <<>>),
      Desc(NoPath, "string", Absent, <<>>) }

ChainDescriptors ==
    { Desc(A, "array", Absent, <<>>), Desc(AEB, "array", Absent, <<>>),
      Desc(AEBEC, "array", Absent, <<>>), Desc(AEBEC, "string", Absent, <<>>),
      Desc(AEBECED, "int", Absent, <<>>),
      Desc(<<"a", ELEMENT, "x">>, "string", Absent, <<>>) }

(* an array with element fields, one of them an object with a child *)
ElementDescriptors ==
    { Desc(A, "array", Absent, <<>>), Desc(A, "array", Absent, <<Nf>>),
      Desc(AEB, "object", Absent, <<>>), Desc(AEB, "string", Absent, <<>>),
      Desc(<<"a", ELEMENT, "x">>, "string", Absent, <<>>),
      Desc(<<"a", ELEMENT, "b", "c">>, "int", Absent, <<>>),
      Desc(<<"c">>, "string", Absent, <<>>) }

(* a struct whose children have descendants of their own *)
StructDescriptors ==
    { Desc(A, "object", Absent, <<>>),
      Desc(AB, "object", Absent, <<>>), Desc(AB, "string", Absent, <<>>),
      Desc(<<"a", "b", "c">>, "string", Absent, <<>>),
      Desc(<<"a", "c">>, "string", Absent, <<>>),
      Desc(<<"c">>, "string", Absent, <<>>) }

RECURSIVE ListsOf(_, _)
ListsOf(S, n) ==
    IF n = 0 THEN {<<>>}
    ELSE {Append(l, d) : l \in {x \in ListsOf(S, n - 1) : Len(x) = n - 1}, d \in S}
         \cup ListsOf(S, n - 1)

DistinctPaths(l) == \A i, j \in 1..Len(l) : l[i].path = l[j].path => i = j

AddLists ==
    {l \in ListsOf(Descriptors, MaxLen) \cup ListsOf(ChainDescriptors, MaxChain)
            \cup ListsOf(ElementDescriptors, MaxChain)
            \cup ListsOf(StructDescriptors, MaxChain) :
        DistinctPaths(l)}

(* ------------------------------------------------------------------ *)
(* The group lists taken as input: up to MaxGroups groups.            *)
(* ------------------------------------------------------------------ *)
AddColumns(columns) == Group("ADD", columns, <<>>, <<>>)

Remove(paths) == Group("REMOVE", <<>>, paths, <<>>)

Entries(operation, entries) == Group(operation, <<>>, <<>>, entries)

Z == <<"z">>

AddGroups ==
    { AddColumns(<<>>),
      AddColumns(<<Desc(A, "string", Absent, <<>>)>>),
      AddColumns(<<Desc(A, "object", Absent, <<>>), Desc(AB, "string", Absent, <<>>)>>),
      AddColumns(<<Desc(AB, "string", Absent, <<>>), Desc(<<"c">>, "int", Absent, <<>>)>>),
      AddColumns(<<Desc(AEB, "string", Absent, <<>>), Desc(A, "array", Absent, <<>>)>>),
      AddColumns(<<Desc(A, Absent, Absent, <<>>)>>) }

OtherGroups ==
    { Remove(<<A>>), Remove(<<AB, <<"c">>>>),
      Entries("MOVE", <<Entry(A, Z, <<>>, Absent)>>),
      Entries("MOVE", <<Entry(A, NoValue, <<>>, Absent)>>),
      Entries("MOVE", <<Entry(NoPath, Z, <<>>, Absent)>>),
      Entries("REORDER", <<Entry(AB, NoValue, <<"first">>, Absent), Entry(A, AB, <<>>, Absent)>>),
      Entries("REORDER", <<Entry(A, NoValue, <<>>, Absent)>>),
      Entries("REORDER", <<Entry(A, NoValue, <<"b">>, Absent)>>),
      Entries("REORDER", <<Entry(A, <<"c">>, <<"b">>, Absent)>>),
      Entries("REPLACE", <<Entry(A, Z, <<>>, "description"), Entry(AB, <<"int">>, <<>>, "type")>>),
      Entries("REPLACE", <<Entry(A, Z, <<>>, "comment"), Entry(A, Z, <<>>, "name")>>),
      Entries("REPLACE", <<Entry(A, <<"decimal(10,2)">>, <<>>, "type")>>),
      Entries("REPLACE", <<Entry(A, Z, <<>>, Absent)>>),
      Entries("REPLACE", <<Entry(A, Z, <<>>, "name"), Entry(AB, Z, <<>>, "default")>>),
      Entries("REPLACE", <<Entry(A, NoValue, <<>>, "type")>>),
      Entries("RENAME", <<Entry(A, Z, <<>>, Absent)>>),
      Remove(<<>>),
      Group(Absent, <<>>, <<A>>, <<>>) }

GroupLists == ListsOf(AddGroups \cup OtherGroups, MaxGroups)

(* no generator object has been built yet *)
NoGenerator ==
    [input_data |-> <<>>, processed_paths |-> {}, top_level_items |-> <<>>,
     path_keys |-> <<>>, path_data |-> EmptyDict, original_order |-> EmptyDict,
     field_order |-> EmptyDict, element_fields |-> EmptyDict,
     array_element_fields |-> EmptyDict, nested_arrays |-> EmptyDict,
     column_definitions |-> <<>>, remaining_items |-> <<>>,
     pc |-> "idle", i |-> 1, result |-> NoResult]

(* a caller that builds one generator and calls its generate_sql *)
Init ==
    /\ gen \in {OrderPreservingGenerator(l) : l \in AddLists}
    /\ input_data = <<>>
    /\ gidx = 0
    /\ sql_statements = <<>>
    /\ status = "direct"
    /\ calls = 0
    /\ first_result = <<>>

(* a caller that builds a SQLColumnGenerator and calls its generate_sql *)
InitSql ==
    /\ gen = NoGenerator
    /\ input_data \in GroupLists
    /\ gidx = 1
    /\ sql_statements = <<>>
    /\ status = "running"
    /\ calls = 1
    /\ first_result = <<>>

(* ------------------------------------------------------------------ *)
(* The steps of OrderPreservingGenerator.generate_sql.                 *)
(* ------------------------------------------------------------------ *)
Preprocess ==
    /\ gen.pc = "new"
    /\ gen' = PreprocessInput(gen)
    /\ UNCHANGED sqlvars

TopLevelItem ==
    /\ gen.pc = "top"
    /\ gen.i <= Len(gen.top_level_items)
    /\ gen' = ProcessTopLevelItem(gen)
    /\ UNCHANGED sqlvars

StartRemaining ==
    /\ gen.pc = "top"
    /\ gen.i > Len(gen.top_level_items)
    /\ gen' = StartRemainingItems(gen)
    /\ UNCHANGED sqlvars

RemainingItem ==
    /\ gen.pc = "rest"
    /\ gen.i <= Len(gen.remaining_items)
    /\ gen' = ProcessRemainingItem(gen)
    /\ UNCHANGED sqlvars

Finish ==
    /\ gen.pc = "rest"
    /\ gen.i > Len(gen.remaining_items)
    /\ gen' = JoinColumns(gen)
    /\ UNCHANGED sqlvars

Next == Preprocess \/ TopLevelItem \/ StartRemaining \/ RemainingItem \/ Finish

Spec == Init /\ [][Next]_vars

(* generate_sql is called again on the same OrderPreservingGenerator:  *)
(* column_definitions is a local of the call, and every attribute of   *)
(* the object is as the first call left it                             *)
GenerateAgain ==
    /\ status = "direct"
    /\ gen.pc = "done"
    /\ calls = 0
    /\ gen' = [gen EXCEPT !.pc = "new", !.i = 1, !.column_definitions = <<>>,
                          !.remaining_items = <<>>, !.result = NoResult]
    /\ first_result' = <<gen.result>>
    /\ calls' = 1
    /\ UNCHANGED <<input_data, gidx, sql_statements, status>>

NextTwice == Next \/ GenerateAgain

SpecTwice == Init /\ [][NextTwice]_vars

(* ------------------------------------------------------------------ *)
(* The turns of the loop of SQLColumnGenerator.generate_sql, its       *)
(* return, and a second call on the same object.                       *)
(* ------------------------------------------------------------------ *)
(* the outcome of a call: the returned list, or the mark of a raise *)
Raised == <<Stmt("RAISED", <<>>, <<>>)>>

Outcome == IF status = "error" THEN Raised ELSE sql_statements

(* sql_statements.append(sql) after add_generator.generate_sql() *)
AppendSql(g) ==
    /\ gen' = g
    /\ status' = IF g.pc = "error" THEN "error" ELSE "running"
    /\ sql_statements' = IF g.pc = "error" THEN sql_statements
                         ELSE Append(sql_statements, g.result)
    /\ gidx' = IF g.pc = "error" THEN gidx ELSE gidx + 1

(* an ADD group: a new generator, its generate_sql, the append *)
AddGroup ==
    /\ status = "running"
    /\ gidx <= Len(input_data)
    /\ input_data[gidx].operation = "ADD"
    /\ AppendSql(RunGenerator(OrderPreservingGenerator(input_data[gidx].columns)))
    /\ UNCHANGED <<input_data, calls, first_result>>

(* sql_statements.extend(...) of the other branches *)
ExtendSql(r) ==
    /\ status' = IF r.ok THEN "running" ELSE "error"
    /\ sql_statements' = IF r.ok THEN sql_statements \o r.stmts ELSE sql_statements
    /\ gidx' = IF r.ok THEN gidx + 1 ELSE gidx

(* a group that is not an ADD group; operation_group["operation"]      *)
(* raises when the key is missing                                      *)
OtherGroup ==
    /\ status = "running"
    /\ gidx <= Len(input_data)
    /\ input_data[gidx].operation # "ADD"
    /\ ExtendSql(IF input_data[gidx].operation = Absent
                 THEN [ok |-> FALSE, stmts |-> <<>>]
                 ELSE GroupStatements(input_data[gidx]))
    /\ UNCHANGED <<gen, input_data, calls, first_result>>

(* return sql_statements *)
Return ==
    /\ status = "running"
    /\ gidx > Len(input_data)
    /\ status' = "returned"
    /\ UNCHANGED <<gen, input_data, gidx, sql_statements, calls, first_result>>

(* generate_sql is called again on the same SQLColumnGenerator *)
CallAgain ==
    /\ status \in {"returned", "error"}
    /\ calls = 1
    /\ first_result' = Outcome
    /\ sql_statements' = <<>>
    /\ gidx' = 1
    /\ status' = "running"
    /\ calls' = 2
    /\ UNCHANGED <<gen, input_data>>

NextSql == AddGroup \/ OtherGroup \/ Return \/ CallAgain

SpecSql == InitSql /\ [][NextSql]_vars

(* ------------------------------------------------------------------ *)
(* What a statement spells out.  The position of a rendered field is   *)
(* the dotted path it stands at: the path of its column, then the      *)
(* names of the fields around it, with an element segment under every  *)
(* array<struct<...>>.                                                 *)
(* ------------------------------------------------------------------ *)
ColPath(name) == [i \in 1..Len(name) |-> name[i][2]]

Under(node) == IF node.k = "array_struct" THEN <<ELEMENT>> ELSE <<>>

RECURSIVE FieldPositions(_, _)
FieldPositions(node, pos) ==
    <<pos>> \o Flatten([i \in 1..Len(node.fields) |->
                          FieldPositions(node.fields[i],
                                         pos \o Under(node) \o node.fields[i].name)])

Emitted(columns) ==
    Flatten([i \in 1..Len(columns) |-> FieldPositions(columns[i], ColPath(columns[i].name))])

Count(p, s) == Cardinality({i \in 1..Len(s) : s[i] = p})

Paths(l) == {l[i].path : i \in 1..Len(l)}

Valued(l) == \A i \in 1..Len(l) : l[i].path # NoPath /\ l[i].value # Absent

Done == status = "direct" /\ gen.pc = "done"

(* C1: no descriptor of an ADD list with pairwise distinct paths is    *)
(* emitted more than once in the generated statement, as a column and  *)
(* as a nested field of an ancestor, in any input order.               *)
C1_EmittedAtMostOnce ==
    Done /\ DistinctPaths(gen.input_data)
    => \A i \in 1..Len(gen.input_data) :
          Count(gen.input_data[i].path, Emitted(gen.result.columns)) <= 1

(* C3: every descriptor of an ADD list with pairwise distinct paths is *)
(* emitted at least once, as a column or as a nested field.            *)
C3_EveryDescriptorEmitted ==
    Done /\ DistinctPaths(gen.input_data)
    => \A i \in 1..Len(gen.input_data) :
          Count(gen.input_data[i].path, Emitted(gen.result.columns)) >= 1

(* the container a path hangs from: the array for an element path, the *)
(* path without its last segment otherwise                             *)
ParentOf(p) ==
    IF Len(p) >= 3 /\ p[Len(p) - 1] = ELEMENT THEN Prefix(p, Len(p) - 2)
    ELSE Prefix(p, Len(p) - 1)

ItemAt(l, p) == l[CHOOSE i \in 1..Len(l) : l[i].path = p]

(* a top-level object and descriptors of its direct and transitive     *)
(* children only: every other descriptor hangs from a descriptor of    *)
(* the list, a field from an object and an element field from an array *)
ObjectWithChildren(l) ==
    /\ Len(l) >= 2
    /\ Valued(l)
    /\ DistinctPaths(l)
    /\ \E r \in 1..Len(l) :
          /\ Len(l[r].path) = 1
          /\ l[r].value = "object"
          /\ \A i \in 1..Len(l) : i # r =>
                /\ Len(l[i].path) >= 2
                /\ ParentOf(l[i].path) \in Paths(l)
                /\ ItemAt(l, ParentOf(l[i].path)).value =
                      (IF l[i].path[Len(l[i].path) - 1] = ELEMENT THEN "array" ELSE "object")

RootOf(l) == l[CHOOSE r \in 1..Len(l) : Len(l[r].path) = 1].path

(* C2: a top-level object with descriptors of all its direct and       *)
(* transitive children, in any order, yields exactly one column, the   *)
(* struct of that object, and no child path is a column of its own or  *)
(* appears twice in the output.                                        *)
C2_OneStructColumn ==
    status = "direct" /\ ObjectWithChildren(gen.input_data)
    => /\ gen.pc # "error"
       /\ gen.pc = "done" =>
             /\ Len(gen.result.columns) = 1
             /\ gen.result.columns[1].k = "struct"
             /\ gen.result.columns[1].name = FormatPath(RootOf(gen.input_data))
             /\ \A i \in 1..Len(gen.input_data) :
                   Count(gen.input_data[i].path, Emitted(gen.result.columns)) <= 1

(* every path is a single segment and every value kind is there *)
NoNestedPaths(l) ==
    /\ DistinctPaths(l)
    /\ \A i \in 1..Len(l) : Len(l[i].path) = 1 /\ l[i].value # Absent

(* C4: an ADD list of distinct single-segment paths yields exactly one *)
(* column per descriptor, in the order of the input, whatever the      *)
(* value kinds.                                                        *)
C4_InputOrderKept ==
    status = "direct" /\ NoNestedPaths(gen.input_data)
    => /\ gen.pc # "error"
       /\ gen.pc = "done" =>
             /\ Len(gen.result.columns) = Len(gen.input_data)
             /\ \A i \in 1..Len(gen.input_data) :
                   gen.result.columns[i].name = FormatPath(gen.input_data[i].path)

(* three columns: an object, an array and a primitive, not sorted by name *)
C4_Witness ==
    /\ Done
    /\ NoNestedPaths(gen.input_data)
    /\ Len(gen.input_data) = 3
    /\ {gen.input_data[i].value : i \in 1..3} = {"object", "array", "string"}
    /\ gen.input_data[1].path = <<"c">>

(* the depth of the array<struct<...>> nesting a rendered field spells *)
MaxOf(S) == IF S = {} THEN 0 ELSE CHOOSE x \in S : \A y \in S : y <= x

RECURSIVE ArrayDepth(_)
ArrayDepth(node) ==
    (IF node.k = "array_struct" THEN 1 ELSE 0)
    + MaxOf({ArrayDepth(node.fields[i]) : i \in 1..Len(node.fields)})

(* a top-level array first, then element fields only, each after the   *)
(* descriptor of the array it is an element field of, and an array     *)
(* among the element fields of an array                                *)
ArrayOfArrays(l) ==
    /\ Len(l) >= 3
    /\ Valued(l)
    /\ DistinctPaths(l)
    /\ Len(l[1].path) = 1
    /\ l[1].value = "array"
    /\ \A i \in 2..Len(l) :
          /\ Len(l[i].path) >= 3
          /\ l[i].path[Len(l[i].path) - 1] = ELEMENT
          /\ \E j \in 1..(i - 1) :
                l[j].path = ParentOf(l[i].path) /\ l[j].value = "array"
    /\ \E i \in 1..Len(l) : CountElement(l[i].path) >= 2

(* C5: an array of structs that hold another array of structs is       *)
(* rendered with array<struct<...>> nesting as deep as the number of   *)
(* element markers of the deepest descriptor path, at any depth.       *)
C5_DepthFollowsMarkers ==
    Done /\ ArrayOfArrays(gen.input_data)
    => /\ Len(gen.result.columns) = 1
       /\ ArrayDepth(gen.result.columns[1]) =
             MaxOf({CountElement(gen.input_data[i].path) : i \in 1..Len(gen.input_data)})

(* a descriptor without its path or without its value kind *)
Malformed(l) == \E i \in 1..Len(l) : l[i].path = NoPath \/ l[i].value = Absent

(* C10: an ADD list with a descriptor that lacks its path or its value *)
(* kind fails while the index is built, before any column definition   *)
(* is rendered, and never yields a statement.                          *)
C10_MalformedFailsFast ==
    status = "direct" /\ Malformed(gen.input_data)
    => gen.pc # "done"

(* ------------------------------------------------------------------ *)
(* Claims on SQLColumnGenerator.generate_sql.                          *)
(* ------------------------------------------------------------------ *)
(* the statement of an ADD group run on its own, <<>> when it raises *)
OwnResult(columns) ==
    LET g == RunGenerator(OrderPreservingGenerator(columns))
    IN IF g.pc = "error" THEN Raised ELSE <<g.result>>

(* C6: generate_sql is deterministic: a second call on the same list   *)
(* of groups ends as the first did, with the same statements, and the  *)
(* statement of an ADD group is the one the group yields on its own,   *)
(* whatever groups come before it.                                     *)
C6_Deterministic ==
    /\ calls = 2 /\ status \in {"returned", "error"} => Outcome = first_result
    /\ status \in {"running", "returned"} /\ gidx > 1 /\ input_data[gidx - 1].operation = "ADD"
       => <<sql_statements[Len(sql_statements)]>> = OwnResult(input_data[gidx - 1].columns)

(* the second call returned, after two ADD groups that both name the   *)
(* column a                                                            *)
C6_Witness ==
    /\ calls = 2
    /\ status = "returned"
    /\ Len(input_data) = 2
    /\ \A i \in 1..2 : /\ input_data[i].operation = "ADD"
                       /\ A \in Paths(input_data[i].columns)
    /\ input_data[1] # input_data[2]

(* the statements the groups stand for: one for an ADD group, one for  *)
(* each entry of another group                                         *)
RECURSIVE Expected(_)
Expected(groups) ==
    IF groups = <<>> THEN 0
    ELSE Expected(Tail(groups))
         + (IF Head(groups).operation = "ADD" THEN 1
            ELSE Len(Head(groups).paths) + Len(Head(groups).entries))

Recognized(groups) == \A i \in 1..Len(groups) : groups[i].operation \in Operations

(* C7: for groups with recognized operations generate_sql returns one  *)
(* statement for each ADD group and one for each entry of every other  *)
(* group.                                                              *)
C7_OneStatementPerEntry ==
    status = "returned" /\ Recognized(input_data)
    => Len(sql_statements) = Expected(input_data)

(* C8: a group whose operation tag is none of the five ends            *)
(* generate_sql in an error; it is never skipped with a normal return. *)
C8_UnknownOperationRaises ==
    (\E i \in 1..Len(input_data) :
        input_data[i].operation \notin Operations \cup {Absent})
    => status # "returned"

(* C9: a REPLACE entry whose target_field is none of description,      *)
(* comment, type, name, or is missing, ends generate_sql in an error.  *)
C9_UnknownTargetRaises ==
    (\E i \in 1..Len(input_data) :
        /\ input_data[i].operation = "REPLACE"
        /\ \E j \in 1..Len(input_data[i].entries) :
              input_data[i].entries[j].target_field
                 \notin {"description", "comment", "type", "name"})
    => status # "returned"

(* the statement a REORDER entry stands for: FIRST, or AFTER the       *)
(* sibling its moveafter names                                         *)
ReorderExpected(entries) ==
    [i \in 1..Len(entries) |->
        IF entries[i].moveafter = <<"first">>
        THEN Stmt("ALTER_COLUMN_FIRST", FormatPath(entries[i].path), <<>>)
        ELSE Stmt("ALTER_COLUMN_AFTER", FormatPath(entries[i].path),
                  Flatten(FormatPath(entries[i].moveafter)))]

(* one REORDER group whose entries all have a path and a moveafter *)
ReorderOnly(groups) ==
    /\ Len(groups) = 1
    /\ groups[1].operation = "REORDER"
    /\ \A i \in 1..Len(groups[1].entries) :
          groups[1].entries[i].path # NoPath /\ groups[1].entries[i].moveafter # <<>>

(* C11: a REORDER entry yields ALTER COLUMN <path> FIRST when its      *)
(* moveafter is "first" and ALTER COLUMN <path> AFTER <the sibling of  *)
(* its moveafter> otherwise, and generation succeeds with or without   *)
(* the value key.                                                      *)
C11_ReorderAfterMoveafter ==
    ReorderOnly(input_data)
    => /\ status # "error"
       /\ status = "returned" => sql_statements = ReorderExpected(input_data[1].entries)

(* the empty-columns form ADD COLUMNS () *)
EmptyForm ==
    [k |-> "ADD_COLUMNS", form |-> "empty", columns |-> <<>>, path |-> <<>>, arg |-> <<>>]

EmptyAdd(group) == group.operation = "ADD" /\ group.columns = <<>>

(* C12: an ADD group with an empty column list yields exactly one      *)
(* statement, the empty-columns form ADD COLUMNS () without a body,    *)
(* and no error.                                                       *)
C12_EmptyAddGroup ==
    /\ status = "error" /\ gidx <= Len(input_data) => ~EmptyAdd(input_data[gidx])
    /\ status \in {"running", "returned"} /\ gidx > 1 /\ EmptyAdd(input_data[gidx - 1])
       => Len(sql_statements) >= 1 /\ sql_statements[Len(sql_statements)] = EmptyForm
    /\ status = "returned" /\ Len(input_data) = 1 /\ EmptyAdd(input_data[1])
       => sql_statements = <<EmptyForm>>

(* the call returned after an empty ADD group that came second *)
C12_Witness ==
    /\ status = "returned"
    /\ Len(input_data) = 2
    /\ EmptyAdd(input_data[2])
    /\ input_data[1].operation = "REMOVE"
    /\ Len(sql_statements) >= 2

(* every rendered field of a statement with the position it stands at *)
RECURSIVE FieldNodes(_, _)
FieldNodes(node, pos) ==
    <<[pos |-> pos, node |-> node]>>
    \o Flatten([i \in 1..Len(node.fields) |->
                   FieldNodes(node.fields[i], pos \o Under(node) \o node.fields[i].name)])

Rendered(columns) ==
    Flatten([i \in 1..Len(columns) |-> FieldNodes(columns[i], ColPath(columns[i].name))])

(* an element field of an array that is no element field itself: the  *)
(* path <array>.element.<name>                                         *)
ElementField(p) == Len(p) >= 3 /\ p[Len(p) - 1] = ELEMENT /\ CountElement(p) = 1

HasDescendants(l, p) == \E i \in 1..Len(l) : StartsWithDot(l[i].path, p)

(* the rendering the value kind of a descriptor asks for *)
KindRendered(l, item, node) ==
    IF item.value = "object"
    THEN HasDescendants(l, item.path) => node.k = "struct"
    ELSE IF item.value = "array" THEN node.k \in {"array", "array_struct"}
    ELSE node.k = "prim" /\ node.t = DdlType(item.value)

(* C13: in the element-struct body of an array every element field is *)
(* rendered by the value kind of its own descriptor; an element field  *)
(* of kind object with descendants is a nested struct, never a field   *)
(* with the type of a descendant, wherever the descendants come in the *)
(* input.                                                              *)
C13_ElementFieldByOwnKind ==
    Done /\ DistinctPaths(gen.input_data) /\ Valued(gen.input_data)
    => LET rendered == Rendered(gen.result.columns)
       IN \A j \in 1..Len(rendered) :
             ElementField(rendered[j].pos) /\ rendered[j].pos \in Paths(gen.input_data)
             => KindRendered(gen.input_data, ItemAt(gen.input_data, rendered[j].pos),
                             rendered[j].node)

(* the field of a body with this name, <<>> when there is none *)
FieldNamed(fields, name) ==
    IF \E i \in 1..Len(fields) : fields[i].name = name
    THEN <<fields[CHOOSE i \in 1..Len(fields) : fields[i].name = name]>>
    ELSE <<>>

(* the array at p names a field in its nestedFields *)
NamesNestedField(l, p) ==
    /\ p \in Paths(l)
    /\ ItemAt(l, p).value = "array"
    /\ ItemAt(l, p).nestedFields # <<>>
    /\ ItemAt(l, p).nestedFields[1].name # Absent

(* the name n is an element field of the array at p and a nested array *)
ElementFieldAndNestedArray(l, p, n) ==
    /\ p \o <<ELEMENT>> \o n \in Paths(l)
    /\ \E i \in 1..Len(l) : StartsWithDot(l[i].path, p \o <<ELEMENT>> \o n \o <<ELEMENT>>)

(* C14: when a field name of an array's element-struct body comes from *)
(* more than one source, the first source in the order nestedFields,   *)
(* element fields, nested arrays is kept: a name given by nestedFields *)
(* is rendered from nestedFields, and a name that is an element field  *)
(* and a nested array is rendered as the element field.                *)
C14_FirstSourceKept ==
    Done /\ DistinctPaths(gen.input_data) /\ Valued(gen.input_data)
    => LET l == gen.input_data
           rendered == Rendered(gen.result.columns)
       IN \A j \in 1..Len(rendered) :
             rendered[j].node.k = "array_struct"
             => /\ NamesNestedField(l, rendered[j].pos)
                   => FieldNamed(rendered[j].node.fields,
                                 <<ItemAt(l, rendered[j].pos).nestedFields[1].name>>)
                      = <<FormatNestedfield(
                            <<ItemAt(l, rendered[j].pos).nestedFields[1].name>>,
                            FieldInfo("nestedField", -1, NoPath,
                                      ItemAt(l, rendered[j].pos).nestedFields[1]))>>
                /\ \A i \in 1..Len(rendered[j].node.fields) :
                      /\ ~NamesNestedField(l, rendered[j].pos)
                      /\ CountElement(rendered[j].pos) = 0
                      /\ ElementFieldAndNestedArray(l, rendered[j].pos,
                                                    rendered[j].node.fields[i].name)
                      => KindRendered(l, ItemAt(l, rendered[j].pos \o <<ELEMENT>>
                                                   \o rendered[j].node.fields[i].name),
                                      rendered[j].node.fields[i])

IndexOf(l, p) == CHOOSE i \in 1..Len(l) : l[i].path = p

(* the name is the one the nestedFields of the array at p gives *)
NestedFieldName(l, p, name) ==
    NamesNestedField(l, p) /\ name = <<ItemAt(l, p).nestedFields[1].name>>

(* the name the nestedFields of the array at p gives is an element    *)
(* field of the array as well                                          *)
SharedName(l, p) ==
    /\ NamesNestedField(l, p)
    /\ \E i \in 1..Len(l) :
          StartsWithDot(l[i].path, p \o <<ELEMENT, ItemAt(l, p).nestedFields[1].name>>)
          \/ l[i].path = p \o <<ELEMENT, ItemAt(l, p).nestedFields[1].name>>

(* C15: in every rendered element-struct body of an array the field    *)
(* named by the array's nestedFields comes first and the other fields  *)
(* follow in ascending input index of their own descriptors            *)
(* <array>.element.<name>, also when descendants of an element field   *)
(* come later in the input than other element fields.                  *)
C15_ElementBodyOrder ==
    Done /\ DistinctPaths(gen.input_data) /\ Valued(gen.input_data)
    => LET l == gen.input_data
           rendered == Rendered(gen.result.columns)
       IN \A j \in 1..Len(rendered) :
             /\ rendered[j].node.k = "array_struct"
             /\ rendered[j].pos \in Paths(l)
             /\ ~SharedName(l, rendered[j].pos)
             => /\ NamesNestedField(l, rendered[j].pos)
                   => NestedFieldName(l, rendered[j].pos, rendered[j].node.fields[1].name)
                /\ \A i1, i2 \in 1..Len(rendered[j].node.fields) :
                      /\ i1 < i2
                      /\ ~NestedFieldName(l, rendered[j].pos, rendered[j].node.fields[i1].name)
                      /\ ~NestedFieldName(l, rendered[j].pos, rendered[j].node.fields[i2].name)
                      /\ rendered[j].pos \o <<ELEMENT>> \o rendered[j].node.fields[i1].name
                            \in Paths(l)
                      /\ rendered[j].pos \o <<ELEMENT>> \o rendered[j].node.fields[i2].name
                            \in Paths(l)
                      => IndexOf(l, rendered[j].pos \o <<ELEMENT>>
                                    \o rendered[j].node.fields[i1].name)
                         < IndexOf(l, rendered[j].pos \o <<ELEMENT>>
                                      \o rendered[j].node.fields[i2].name)

(* the array at p has a body: nestedFields, element fields or nested  *)
(* arrays                                                              *)
HasBody(l, p) ==
    \/ ItemAt(l, p).nestedFields # <<>>
    \/ \E i \in 1..Len(l) : StartsWithDot(l[i].path, p \o <<ELEMENT>>)

(* C16: an array with nestedFields, element fields or nested arrays is *)
(* rendered as array<struct<...>> wherever it occurs (column, child of *)
(* a struct, element field of an array), with or without an element    *)
(* type; an array with none of them is a simple array of its element   *)
(* type, of string when it has none.                                   *)
C16_ArrayForm ==
    Done /\ DistinctPaths(gen.input_data) /\ Valued(gen.input_data)
    => LET l == gen.input_data
           rendered == Rendered(gen.result.columns)
       IN \A j \in 1..Len(rendered) :
             /\ rendered[j].pos \in Paths(l)
             /\ ItemAt(l, rendered[j].pos).value = "array"
             /\ rendered[j].node.k \in {"array", "array_struct"}
             => IF HasBody(l, rendered[j].pos)
                THEN rendered[j].node.k = "array_struct"
                ELSE /\ rendered[j].node.k = "array"
                     /\ rendered[j].node.t = ArrTypeOr(ItemAt(l, rendered[j].pos))

(* index of the first descriptor of l whose top-level segment is s *)
RECURSIVE FirstSeen(_, _, _)
FirstSeen(l, s, i) ==
    IF i > Len(l) THEN BIG
    ELSE IF l[i].path[1] = s THEN i ELSE FirstSeen(l, s, i + 1)

(* every top-level segment of l has a descriptor of its own *)
RootsDescribed(l) ==
    \A i \in 1..Len(l) : <<l[i].path[1]>> \in Paths(l)

(* C17: in an ADD list in which every top-level segment has its own    *)
(* descriptor, the columns follow the input position at which their    *)
(* top-level segment is first seen, also when a child descriptor comes *)
(* before its parent's.                                                *)
C17_ColumnsByFirstSeen ==
    Done /\ DistinctPaths(gen.input_data) /\ Valued(gen.input_data)
         /\ RootsDescribed(gen.input_data)
    => LET l == gen.input_data
           columns == gen.result.columns
       IN \A j1, j2 \in 1..Len(columns) :
             j1 < j2
             => FirstSeen(l, ColPath(columns[j1].name)[1], 1)
                    <= FirstSeen(l, ColPath(columns[j2].name)[1], 1)

(* C18: in every rendered struct body the direct child fields stand in *)
(* ascending input index of their descriptors, and each direct child   *)
(* stands there at most once, also when the collection of the children *)
(* meets it several times (as itself and through its descendants).     *)
C18_StructBodyOrder ==
    Done /\ DistinctPaths(gen.input_data) /\ Valued(gen.input_data)
    => LET l == gen.input_data
           rendered == Rendered(gen.result.columns)
       IN \A j \in 1..Len(rendered) :
             rendered[j].node.k = "struct"
             => \A i1, i2 \in 1..Len(rendered[j].node.fields) :
                   i1 < i2
                   => /\ rendered[j].node.fields[i1].name # rendered[j].node.fields[i2].name
                      /\ rendered[j].pos \o rendered[j].node.fields[i1].name \in Paths(l)
                      /\ rendered[j].pos \o rendered[j].node.fields[i2].name \in Paths(l)
                      /\ IndexOf(l, rendered[j].pos \o rendered[j].node.fields[i1].name)
                            < IndexOf(l, rendered[j].pos \o rendered[j].node.fields[i2].name)


(* a struct body in which a child was met through a descendant that   *)
(* comes before the descriptor of the sibling rendered ahead of it     *)
C18_Witness ==
    /\ Done
    /\ LET l == gen.input_data
           rendered == Rendered(gen.result.columns)
       IN \E j \in 1..Len(rendered) :
             /\ rendered[j].node.k = "struct"
             /\ Len(rendered[j].node.fields) >= 2
             /\ \E i \in 1..Len(l) :
                   /\ StartsWithDot(l[i].path,
                                    rendered[j].pos \o rendered[j].node.fields[2].name)
                   /\ rendered[j].pos \o rendered[j].node.fields[1].name \in Paths(l)
                   /\ i < IndexOf(l, rendered[j].pos \o rendered[j].node.fields[1].name)

(* the struct and array-of-struct columns emitted so far cover their   *)
(* own path and every descriptor path below it in the processed set    *)
TreesProcessed ==
    status = "direct" /\ gen.pc \in {"top", "rest", "done"}
    => \A j \in 1..Len(gen.column_definitions) :
          gen.column_definitions[j].k \in {"struct", "array_struct"}
          => /\ ColPath(gen.column_definitions[j].name) \in gen.processed_paths
             /\ \A i \in 1..Len(gen.input_data) :
                   StartsWithDot(gen.input_data[i].path,
                                 ColPath(gen.column_definitions[j].name))
                   => gen.input_data[i].path \in gen.processed_paths

(* C19: once a struct or an array of struct at path P is emitted, in   *)
(* the top-level pass or in the sweep, the processed set holds P and   *)
(* every descriptor path that starts with P., nested element paths     *)
(* included, up to the end of the generation; and the processed set    *)
(* never loses a path.                                                 *)
C19_ProcessedCoversEmitted ==
    /\ [](TreesProcessed)
    /\ [][gen.processed_paths \subseteq gen'.processed_paths]_vars


(* the second call of generate_sql on one generator has ended *)
SecondEnded == status = "direct" /\ calls = 1 /\ gen.pc \in {"done", "error"}

(* C20: the ADD generator keeps no state across calls: a second        *)
(* generate_sql on the same OrderPreservingGenerator returns the same  *)
(* statement as the first.                                             *)
C20_SecondCallSame ==
    SecondEnded => gen.pc = "done" /\ <<gen.result>> = first_result


(* generate_sql has ended, by a return or by an exception *)
Ended == status = "direct" /\ gen.pc \in {"done", "error"}

(* C21: for every ADD list of one or more well-formed descriptors (a   *)
(* path and a value each) the generation yields one column definition  *)
(* or more: the result is never the empty form ADD COLUMNS (), also    *)
(* when the first descriptor is suppressed because an ancestor struct  *)
(* will render it.                                                     *)
C21_NeverEmptyColumns ==
    Ended /\ gen.input_data # <<>> /\ Valued(gen.input_data)
    => /\ gen.pc = "done"
       /\ gen.result.form = "body"
       /\ gen.result.columns # <<>>


(* a generation whose first descriptor lies under an object descriptor *)
(* that comes later, and is no column of its own                       *)
C21_Witness ==
    /\ Done
    /\ Valued(gen.input_data)
    /\ Len(gen.input_data) >= 2
    /\ \E i \in 2..Len(gen.input_data) :
          /\ gen.input_data[i].value = "object"
          /\ StartsWithDot(gen.input_data[1].path, gen.input_data[i].path)
    /\ gen.result.columns # <<>>
    /\ \A j \in 1..Len(gen.result.columns) :
          ColPath(gen.result.columns[j].name) # gen.input_data[1].path

====
